---- MODULE Spec2Model ----
(***************************************************************************)
(* State-machine model of the vision tool of the realtime console:         *)
(*   src/client/components/ToolPanel.jsx  (ToolPanel, analyzeWithTimeout,  *)
(*                                         handlePhotoTaken, sendToModel)  *)
(* The component's React state, its props (isSessionActive, events,        *)
(* dataChannel, sendClientEvent) and every pending asynchronous            *)
(* continuation of handlePhotoTaken are the state; each effect, callback   *)
(* and promise continuation is one action.                                 *)
(*   src/client/components/CameraModal.jsx  (the modal ToolPanel renders   *)
(*                                           while showCamera is true)     *)
(*   src/server.js  (POST /analyze-image)                                  *)
(***************************************************************************)
EXTENDS Integers, Sequences, FiniteSets, TLC

VARIABLES
    isSessionActive,       \* prop (ToolPanel.jsx:30)
    dataChannel,           \* prop (ToolPanel.jsx:33): 0 = null, 1 = a channel object
    events,                \* prop (ToolPanel.jsx:32), newest event first
    showCamera,            \* useState (ToolPanel.jsx:35)
    currentImageFilename,  \* useState (ToolPanel.jsx:36)
    isAnalyzing,           \* useState (ToolPanel.jsx:37)
    currentImage,          \* useState (ToolPanel.jsx:38): 0 = null, else the image
    analysisError,         \* useState (ToolPanel.jsx:39)
    crashed,               \* an effect threw: React unmounts the tree
    calls,                 \* one record per handlePhotoTaken invocation
    sent,                  \* the events passed to sendClientEvent, in order
    cleanupRequests,       \* the bodies POSTed to /cleanup-image, in order
    modals,                \* one record per CameraModal instance mounted
    requests               \* one record per POST /analyze-image the server got

vars == <<isSessionActive, dataChannel, events, showCamera,
          currentImageFilename, isAnalyzing, currentImage, analysisError,
          crashed, calls, sent, cleanupRequests, modals, requests>>

\* the props and state of ToolPanel and what its handlers have done
panelVars == <<isSessionActive, dataChannel, events, showCamera,
               currentImageFilename, isAnalyzing, currentImage, analysisError,
               crashed, calls, sent, cleanupRequests>>

uiVars == <<showCamera, currentImageFilename, isAnalyzing, currentImage,
            analysisError>>

-----------------------------------------------------------------------------
(* Bounds of the model *)

\* handlePhotoTaken invocations followed
MaxCaptures == 1
\* length of the events list in the controller specification
MaxEvents == 1
\* length of a response.output collection in the classifier specification
MaxOutputs == 2
\* CameraModal instances mounted in the camera specification
MaxModals == 2
\* POST /analyze-image requests in the server specification
MaxRequests == 3

-----------------------------------------------------------------------------
(* JavaScript values *)

\* a missing field or object (undefined reached through ?.)
Absent == "<absent>"
\* an object that is there and has no name property
Undefined == "<undefined>"
\* null in a string-valued state
Null == "<null>"
\* the outcome of an expression that throws a TypeError
TypeError == "<TypeError>"

\* the names an event can carry; "" is a present but falsy name
Names == {Undefined, "", "take_photo", "other"}

\* JavaScript truthiness of a name read through ?.
Truthy(n) == n \notin {Absent, Undefined, ""}

-----------------------------------------------------------------------------
(* Realtime events: the fields the effect of ToolPanel.jsx:41-72 reads *)

\* an element of response.output, or the single nested output
OutputItems == [type : {"function_call", "message"}, name : Names]

\* the sequences over S of length at most n
RECURSIVE SeqsUpTo(_, _)
SeqsUpTo(S, n) ==
    IF n = 0 THEN {<<>>}
    ELSE LET shorter == SeqsUpTo(S, n - 1)
         IN  shorter \cup {Append(q, x) : q \in {r \in shorter : Len(r) = n - 1}, x \in S}

\* response.output: missing, one nested item, or a collection of items
Outputs ==
    {[kind |-> "absent", items |-> <<>>]}
      \cup {[kind |-> "single", items |-> <<i>>] : i \in OutputItems}
      \cup {[kind |-> "collection", items |-> q] : q \in SeqsUpTo(OutputItems, MaxOutputs)}

EventTypes ==
    {"function_call", "response.output_item.added", "response.done", "session.update"}

\* every event record the classifier is checked on
AllEvents ==
    [type : EventTypes, function : Names \cup {Absent}, output : Outputs]

\* the direct take_photo call of the component tests (part_000:52-57), the
\* event that drives the controller
TakePhotoCall ==
    [type |-> "function_call", function |-> "take_photo",
     output |-> [kind |-> "absent", items |-> <<>>]]
SessionEvents == {TakePhotoCall}

\* events that do not ask for a photo: a call of another function, and an
\* event that is no function call
OtherCall ==
    [type |-> "function_call", function |-> "other",
     output |-> [kind |-> "absent", items |-> <<>>]]
SessionUpdate ==
    [type |-> "session.update", function |-> Absent,
     output |-> [kind |-> "absent", items |-> <<>>]]
ListEvents == {TakePhotoCall, OtherCall, SessionUpdate}

\* the indices of the function_call-typed elements of a collection
CallIndices(items) == {i \in 1..Len(items) : items[i].type = "function_call"}

Min(S) == CHOOSE x \in S : \A y \in S : x <= y

\* faulty variant: any event that carries a function field passes the shape test
ShapeTestAnyFunction(e) ==
    IF e.type = "function_call" \/ e.function # Absent THEN "true" ELSE "false"

\* ToolPanel.jsx:53-57: the three-shape test on the newest event; .some on a
\* single nested object is not a function and throws
ShapeTest(e) ==
    IF e.type = "function_call" THEN "true"
    ELSE IF e.type = "response.output_item.added"
              /\ e.output.kind = "single"
              /\ e.output.items[1].type = "function_call" THEN "true"
    ELSE IF e.type = "response.done" THEN
        CASE e.output.kind = "absent" -> "false"
          [] e.output.kind = "single" -> TypeError
          [] e.output.kind = "collection" ->
                IF CallIndices(e.output.items) # {} THEN "true" ELSE "false"
    ELSE "false"

\* faulty variant: the direct function field is not consulted
FunctionNameNoDirect(e) ==
    IF e.output.kind = "single" /\ Truthy(e.output.items[1].name)
    THEN e.output.items[1].name
    ELSE IF e.output.kind = "collection" /\ CallIndices(e.output.items) # {}
         THEN e.output.items[Min(CallIndices(e.output.items))].name
    ELSE Absent

\* faulty variant: a collection gives the name of its last function_call
\* element
FunctionNameLastCall(e) ==
    IF Truthy(e.function) THEN e.function
    ELSE IF e.output.kind = "single" /\ Truthy(e.output.items[1].name)
         THEN e.output.items[1].name
    ELSE CASE e.output.kind = "absent" -> Absent
           [] e.output.kind = "single" -> TypeError
           [] e.output.kind = "collection" ->
                IF CallIndices(e.output.items) = {} THEN Absent
                ELSE e.output.items[-Min({-i : i \in CallIndices(e.output.items)})].name

\* ToolPanel.jsx:62-64: function?.name || response?.output?.name ||
\* response?.output?.find(o => o.type === "function_call")?.name
FunctionName(e) ==
    IF Truthy(e.function) THEN e.function
    ELSE IF e.output.kind = "single" /\ Truthy(e.output.items[1].name)
         THEN e.output.items[1].name
    ELSE CASE e.output.kind = "absent" -> Absent
           [] e.output.kind = "single" -> TypeError
           [] e.output.kind = "collection" ->
                IF CallIndices(e.output.items) = {} THEN Absent
                ELSE e.output.items[Min(CallIndices(e.output.items))].name

\* ToolPanel.jsx:53-70: what the effect does with the newest event
Classify(e) ==
    IF ShapeTest(e) = TypeError THEN TypeError
    ELSE IF ShapeTest(e) = "false" THEN "ignored"
    ELSE IF FunctionName(e) = TypeError THEN TypeError
    ELSE IF FunctionName(e) = "take_photo" THEN "take_photo"
    ELSE "ignored"

\* faulty variant: the effect looks for a take_photo call in the whole list
EventsEffectAnyEvent(evs) ==
    IF \E i \in 1..Len(evs) : Classify(evs[i]) = "take_photo"
    THEN /\ showCamera' = TRUE
         /\ analysisError' = Null
         /\ crashed' = crashed
    ELSE UNCHANGED <<showCamera, analysisError, crashed>>

\* ToolPanel.jsx:41-72: the events effect, run on the list evs
EventsEffect(evs) ==
    IF Len(evs) = 0 THEN UNCHANGED <<showCamera, analysisError, crashed>>
    ELSE CASE Classify(evs[1]) = "take_photo" ->
                /\ showCamera' = TRUE
                /\ analysisError' = Null
                /\ crashed' = crashed
           [] Classify(evs[1]) = "ignored" ->
                UNCHANGED <<showCamera, analysisError, crashed>>
           [] Classify(evs[1]) = TypeError ->
                /\ crashed' = TRUE
                /\ UNCHANGED <<showCamera, analysisError>>

\* the parent passes a new events list; the effect of ToolPanel.jsx:41-72 runs
EventsChange(evs) ==
    /\ ~crashed
    /\ events' = evs
    /\ EventsEffect(evs)
    /\ UNCHANGED <<isSessionActive, dataChannel, currentImageFilename,
                   isAnalyzing, currentImage, calls, sent, cleanupRequests>>

\* a realtime event arrives and is put at the head of the list
EventArrives(e) == EventsChange(<<e>> \o events)

\* the parent starts over with an empty list (ToolPanel.jsx:42 returns at once)
EventsCleared ==
    /\ events # <<>>
    /\ EventsChange(<<>>)

-----------------------------------------------------------------------------
(* Session props and the session-end effect *)

\* faulty variant: the reset forgets the captured image
SessionEffectKeepsImage(active) ==
    IF active THEN UNCHANGED <<uiVars, cleanupRequests>>
    ELSE /\ showCamera' = FALSE
         /\ isAnalyzing' = FALSE
         /\ analysisError' = Null
         /\ UNCHANGED <<currentImage, currentImageFilename, cleanupRequests>>

\* ToolPanel.jsx:74-85: the effect on [isSessionActive], run with the new value;
\* cleanupSession (87-97) POSTs the filename and swallows every failure
SessionEffect(active) ==
    IF active THEN UNCHANGED <<uiVars, cleanupRequests>>
    ELSE /\ showCamera' = FALSE
         /\ isAnalyzing' = FALSE
         /\ currentImage' = 0
         /\ analysisError' = Null
         /\ IF currentImageFilename # Null
            THEN /\ cleanupRequests' = Append(cleanupRequests, currentImageFilename)
                 /\ currentImageFilename' = Null
            ELSE UNCHANGED <<cleanupRequests, currentImageFilename>>

\* the parent flips the isSessionActive prop
SessionChanges(active) ==
    /\ ~crashed
    /\ isSessionActive # active
    /\ isSessionActive' = active
    /\ SessionEffect(active)
    /\ UNCHANGED <<dataChannel, events, crashed, calls, sent>>

SessionStarts == SessionChanges(TRUE)
SessionEnds == SessionChanges(FALSE)

\* the parent creates a data channel and passes it as the dataChannel prop
ChannelCreated ==
    /\ ~crashed
    /\ dataChannel = 0
    /\ dataChannel' = 1
    /\ UNCHANGED <<isSessionActive, events, uiVars, crashed, calls, sent, cleanupRequests>>

\* the parent sets the dataChannel prop back to null
ChannelRemoved ==
    /\ ~crashed
    /\ dataChannel # 0
    /\ dataChannel' = 0
    /\ UNCHANGED <<isSessionActive, events, uiVars, crashed, calls, sent, cleanupRequests>>

\* ToolPanel.jsx:256: the modal's onClose
CloseCamera ==
    /\ ~crashed
    /\ showCamera
    /\ showCamera' = FALSE
    /\ UNCHANGED <<isSessionActive, dataChannel, events,
                   currentImageFilename, isAnalyzing, currentImage, analysisError,
                   crashed, calls, sent, cleanupRequests>>

-----------------------------------------------------------------------------
(* handlePhotoTaken: one record per invocation, holding the closure it runs   *)
(* in (the props of the render that created it) and where it is suspended     *)

\* RTCDataChannel.readyState, as ToolPanel.jsx:127 and 187 read it; a channel
\* goes from connecting to open to closed and never back
ReadyStates == {"connecting", "open", "closed"}
Later(rs) ==
    CASE rs = "connecting" -> {"connecting", "open", "closed"}
      [] rs = "open" -> {"open", "closed"}
      [] rs = "closed" -> {"closed"}

\* what the closure of a call can read as dataChannel.readyState, given what
\* it has read of that channel object before
Readable(call) == IF call.channel = 0 THEN {"closed"} ELSE Later(call.readyState)

\* ToolPanel.jsx:4
VISION_TIMEOUT == 10000
\* faulty variant: the loop condition is attempt <= maxAttempts
maxAttemptsInclusive == 5 + 1

\* ToolPanel.jsx:118
maxAttempts == 5
\* ToolPanel.jsx:119
baseDelay == 1000

\* ToolPanel.jsx:9: the rejection of the timeout promise
TimeoutMessage == "Vision analysis timeout"
\* ToolPanel.jsx:184
errorText == "Vision analysis timed out. Please try again."
\* ToolPanel.jsx:207
ApologySpeech ==
    "I'm sorry, but the vision analysis timed out. Please try taking another photo."
\* ToolPanel.jsx:170
ChannelUnavailable == "Failed to send results to model - channel not available"
\* error.message of a rejected fetch and of reading .content of a missing
\* message (ToolPanel.jsx:108, 114)
FetchFailed == "Failed to fetch"
NoMessage == "Cannot read properties of undefined (reading 'content')"

\* message.content of the choice src/server.js:139 returns
AnalysisTexts == {"A cup on a table."}

\* what /analyze-image answers (src/server.js:110-147); a choice may lack
\* message.content
Responses ==
    {[status |-> 200, body |-> "content", text |-> t] : t \in AnalysisTexts}
      \cup {[status |-> 200, body |-> "content", text |-> Undefined],
            [status |-> 400, body |-> "error", text |-> Undefined],
            [status |-> 500, body |-> "error", text |-> Undefined]}

\* ToolPanel.jsx:129-135
FunctionResult(c) ==
    [call |-> c, type |-> "function_result", text |-> "take_photo: success"]
\* ToolPanel.jsx:138-150 and 189-201
AssistantMessage(c, t) ==
    [call |-> c, type |-> "conversation.item.create", text |-> t]
\* ToolPanel.jsx:153-159 and 203-209
SpeechStart(c, t) ==
    [call |-> c, type |-> "speech.output.start", text |-> t]

RECURSIVE Pow2(_)
Pow2(n) == IF n = 0 THEN 1 ELSE 2 * Pow2(n - 1)

\* faulty variant: the backoff grows linearly
DelayLinear(attempt) == baseDelay * (attempt + 1)

\* ToolPanel.jsx:165
Delay(attempt) == baseDelay * Pow2(attempt)

Calls == 1..Len(calls)

\* the frame of a call that has not started sendToModel, with no closure left
NoFrame ==
    [active |-> FALSE, channel |-> 0, readyState |-> "connecting",
     text |-> Undefined, attempt |-> 0,
     checks |-> 0, waited |-> 0]

\* handlePhotoTaken has returned or thrown: its closure is dropped and only
\* how it ended is kept
Finished(call, result) ==
    [pc |-> "done", fetch |-> call.fetch, result |-> result] @@ NoFrame

\* ToolPanel.jsx:99-108, CameraModal.jsx:36-51: the modal hands over a photo;
\* handlePhotoTaken runs up to its first await, and its closure holds the
\* isSessionActive and dataChannel of the current render
handlePhotoTaken ==
    /\ ~crashed
    /\ showCamera
    /\ showCamera' = FALSE
    /\ currentImage' = Len(calls) + 1
    /\ isAnalyzing' = TRUE
    /\ analysisError' = Null
    /\ calls' = Append(calls,
                       [pc |-> "fetching", active |-> isSessionActive,
                        channel |-> dataChannel, readyState |-> "connecting",
                        fetch |-> "pending",
                        text |-> Undefined, attempt |-> 0,
                        checks |-> 0, waited |-> 0, result |-> "none"])
    /\ UNCHANGED <<isSessionActive, dataChannel, events,
                   currentImageFilename, crashed, sent, cleanupRequests>>

\* ToolPanel.jsx:121-167: one iteration of the loop of sendToModel, up to its
\* next await; rs = the readyState it reads, ok = sendClientEvent returns
LoopIteration(c, call, rs, ok) ==
    IF call.channel = 0 \/ ~call.active
    THEN /\ calls' = [calls EXCEPT ![c] = Finished(call, "aborted")]
         /\ sent' = sent
    ELSE IF rs = "open"
    THEN IF ok
         THEN /\ calls' = [calls EXCEPT ![c] = [call EXCEPT !.pc = "await1",
                                                             !.readyState = rs,
                                                             !.checks = call.checks + 1]]
              /\ sent' = Append(sent, FunctionResult(c))
         ELSE /\ calls' = [calls EXCEPT ![c] = Finished(call, "send_failed")]
              /\ sent' = sent
    ELSE /\ calls' = [calls EXCEPT ![c] = [call EXCEPT !.pc = "backoff",
                                                        !.readyState = rs,
                                                        !.checks = call.checks + 1,
                                                        !.waited = call.waited + Delay(call.attempt)]]
         /\ sent' = sent

\* faulty variant: every failure is announced on the channel, not only the
\* timeout
CatchBlockAnnouncesAll(c, call, message, rs, ok) ==
    /\ isAnalyzing' = FALSE
    /\ analysisError' = (IF message = TimeoutMessage THEN errorText ELSE message)
    /\ IF call.channel # 0 /\ rs = "open" /\ ok
       THEN /\ calls' = [calls EXCEPT ![c] =
                            IF message = TimeoutMessage
                            THEN [call EXCEPT !.pc = "apology1", !.readyState = rs,
                                              !.result = "timeout"]
                            ELSE Finished(call, "failed")]
            /\ sent' = Append(sent, AssistantMessage(c, errorText))
       ELSE /\ calls' = [calls EXCEPT ![c] =
                            Finished(call, IF message = TimeoutMessage
                                           THEN "timeout" ELSE "failed")]
            /\ sent' = sent

\* ToolPanel.jsx:178-212: the catch block, up to its first await
CatchBlock(c, call, message, rs, ok) ==
    /\ isAnalyzing' = FALSE
    /\ IF message = TimeoutMessage
       THEN /\ analysisError' = errorText
            /\ IF call.channel # 0 /\ rs = "open" /\ ok
               THEN /\ calls' = [calls EXCEPT ![c] = [call EXCEPT !.pc = "apology1",
                                                                   !.readyState = rs,
                                                                   !.result = "timeout"]]
                    /\ sent' = Append(sent, AssistantMessage(c, errorText))
               ELSE /\ calls' = [calls EXCEPT ![c] = Finished(call, "timeout")]
                    /\ sent' = sent
       ELSE /\ analysisError' = message
            /\ calls' = [calls EXCEPT ![c] = Finished(call, "failed")]
            /\ sent' = sent

\* faulty variant: the race is never taken as settled, a late response is processed
RaceOpenAlways(call) == TRUE

\* ToolPanel.jsx:15-22: Promise.race is settled by whichever of the fetch and
\* the timer comes first; the other one is then ignored
RaceOpen(call) == call.pc = "fetching"

\* ToolPanel.jsx:16-20, 108: the fetch of /analyze-image resolves with a response
FetchResolves(c) ==
    /\ ~crashed
    /\ calls[c].fetch = "pending"
    /\ calls' = [calls EXCEPT ![c] =
                    IF RaceOpen(calls[c])
                    THEN [calls[c] EXCEPT !.fetch = "settled", !.pc = "reading"]
                    ELSE [calls[c] EXCEPT !.fetch = "settled"]]
    /\ UNCHANGED <<isSessionActive, dataChannel, events, uiVars, crashed,
                   sent, cleanupRequests>>

\* ToolPanel.jsx:16-20, 108, 178: the fetch rejects
FetchRejects(c) ==
    /\ ~crashed
    /\ calls[c].fetch = "pending"
    /\ IF RaceOpen(calls[c])
       THEN CatchBlock(c, [calls[c] EXCEPT !.fetch = "settled"], FetchFailed,
                       calls[c].readyState, TRUE)
       ELSE /\ calls' = [calls EXCEPT ![c] = [calls[c] EXCEPT !.fetch = "settled"]]
            /\ UNCHANGED <<isAnalyzing, analysisError, sent>>
    /\ UNCHANGED <<isSessionActive, dataChannel, events, showCamera,
                   currentImageFilename, currentImage, crashed, cleanupRequests>>

\* ToolPanel.jsx:7-12, 178: the timer fires while the race is open
TimerFires(c, rs, ok) ==
    /\ ~crashed
    /\ calls[c].pc = "fetching"
    /\ rs \in Readable(calls[c])
    /\ CatchBlock(c, calls[c], TimeoutMessage, rs, ok)
    /\ UNCHANGED <<isSessionActive, dataChannel, events, showCamera,
                   currentImageFilename, currentImage, crashed, cleanupRequests>>

\* ToolPanel.jsx:109-176: response.json() settles; on a body with a message the
\* analysis is over and sendToModel starts with its first iteration
JsonSettles(c, r, rs, ok) ==
    /\ ~crashed
    /\ calls[c].pc = "reading"
    /\ rs \in Readable(calls[c])
    /\ LET call == [calls[c] EXCEPT !.text = r.text]
       IN  CASE r.body = "error" -> CatchBlock(c, call, NoMessage, rs, ok)
             [] r.body = "content" ->
                  /\ isAnalyzing' = FALSE
                  /\ analysisError' = analysisError
                  /\ LoopIteration(c, call, rs, ok)
    /\ UNCHANGED <<isSessionActive, dataChannel, events, showCamera,
                   currentImageFilename, currentImage, crashed, cleanupRequests>>

\* faulty variant: sendToModel is awaited inside the try block, so its final
\* throw reaches the catch block of handlePhotoTaken
BackoffElapsesAwaited(c, rs, ok) ==
    /\ ~crashed
    /\ calls[c].pc = "backoff"
    /\ rs \in Readable(calls[c])
    /\ LET call == [calls[c] EXCEPT !.attempt = calls[c].attempt + 1]
       IN  IF call.attempt < maxAttempts
           THEN /\ LoopIteration(c, call, rs, ok)
                /\ UNCHANGED <<isAnalyzing, analysisError>>
           ELSE /\ calls' = [calls EXCEPT ![c] = Finished(call, "unavailable")]
                /\ sent' = sent
                /\ isAnalyzing' = FALSE
                /\ analysisError' = ChannelUnavailable
    /\ UNCHANGED <<isSessionActive, dataChannel, events, showCamera,
                   currentImageFilename, currentImage, crashed, cleanupRequests>>

\* ToolPanel.jsx:121, 167-170: the backoff timer fires; the loop goes on, or ends
\* by throwing the error that ToolPanel.jsx:174 logs
BackoffElapses(c, rs, ok) ==
    /\ ~crashed
    /\ calls[c].pc = "backoff"
    /\ rs \in Readable(calls[c])
    /\ LET call == [calls[c] EXCEPT !.attempt = calls[c].attempt + 1]
       IN  IF call.attempt < maxAttempts
           THEN LoopIteration(c, call, rs, ok)
           ELSE /\ calls' = [calls EXCEPT ![c] = Finished(call, "unavailable")]
                /\ sent' = sent
    /\ UNCHANGED <<isSessionActive, dataChannel, events, uiVars, crashed,
                   cleanupRequests>>

\* ToolPanel.jsx:129-161, 189-209: an awaited sendClientEvent returns and the
\* next message is passed to it; ok = that next call returns
SendReturns(c, ok) ==
    /\ ~crashed
    /\ calls[c].pc \in {"await1", "await2", "await3", "apology1", "apology2"}
    /\ LET call == calls[c]
       IN  CASE call.pc = "await1" /\ ok ->
                  /\ calls' = [calls EXCEPT ![c] = [call EXCEPT !.pc = "await2"]]
                  /\ sent' = Append(sent, AssistantMessage(c, call.text))
             [] call.pc = "await2" /\ ok ->
                  /\ calls' = [calls EXCEPT ![c] = [call EXCEPT !.pc = "await3"]]
                  /\ sent' = Append(sent, SpeechStart(c, call.text))
             [] call.pc = "await3" ->
                  /\ calls' = [calls EXCEPT ![c] = Finished(call, "success")]
                  /\ sent' = sent
             [] call.pc \in {"await1", "await2"} /\ ~ok ->
                  /\ calls' = [calls EXCEPT ![c] = Finished(call, "send_failed")]
                  /\ sent' = sent
             [] call.pc = "apology1" /\ ok ->
                  /\ calls' = [calls EXCEPT ![c] = [call EXCEPT !.pc = "apology2"]]
                  /\ sent' = Append(sent, SpeechStart(c, ApologySpeech))
             [] call.pc = "apology1" /\ ~ok ->
                  /\ calls' = [calls EXCEPT ![c] = Finished(call, "timeout")]
                  /\ sent' = sent
             [] call.pc = "apology2" ->
                  /\ calls' = [calls EXCEPT ![c] = Finished(call, "timeout")]
                  /\ sent' = sent
    /\ UNCHANGED <<isSessionActive, dataChannel, events, uiVars, crashed,
                   cleanupRequests>>

-----------------------------------------------------------------------------
(* CameraModal: one record per mounted instance.  ToolPanel.jsx:254-259       *)
(* renders the modal while showCamera is true, with onClose and               *)
(* onPhotoTaken = handlePhotoTaken.                                           *)

\* CameraModal.jsx:22
CameraError ==
    "Could not access camera. Please ensure you have granted camera permissions."

\* CameraModal.jsx:4-8, 26, 62-67: the first render and the mount effect.
\* stream and error are the React state; video = videoRef.current is set;
\* closureStream is the stream the cleanup closure of the effect holds, the
\* state of the render the effect ran in; tracks are those of the MediaStream
\* getUserMedia gives
NewModal ==
    [mounted |-> TRUE, setup |-> "pending", tracks |-> "none", stream |-> 0,
     closureStream |-> 0, error |-> Null, video |-> TRUE]

\* CameraModal.jsx:29-33: React unmounts the modal: the ref is cleared and the
\* cleanup of the mount effect runs
Unmounted(modal) ==
    [modal EXCEPT !.mounted = FALSE,
                  !.video = FALSE,
                  !.tracks = IF modal.closureStream # 0 /\ modal.tracks = "live"
                             THEN "stopped" ELSE modal.tracks]

\* ToolPanel.jsx:254-259: the modal is mounted when showCamera becomes true and
\* unmounted when it becomes false
RenderModal ==
    IF ~showCamera /\ showCamera' THEN modals' = Append(modals, NewModal)
    ELSE IF showCamera /\ ~showCamera'
         THEN modals' = [modals EXCEPT ![Len(modals)] = Unmounted(modals[Len(modals)])]
    ELSE modals' = modals

\* faulty variant: the rejection is swallowed without an error state
SetupRejectedSilently(modal) == [modal EXCEPT !.setup = "rejected"]

\* CameraModal.jsx:20-23, 57-61: the catch of setupCamera; on a mounted modal
\* the error replaces the video element (setError on an unmounted one does
\* nothing)
SetupRejected(modal) ==
    IF modal.mounted
    THEN [modal EXCEPT !.setup = "rejected", !.error = CameraError, !.video = FALSE]
    ELSE [modal EXCEPT !.setup = "rejected"]

\* CameraModal.jsx:12-19: getUserMedia resolves with a live stream
SetupResolved(modal) ==
    IF modal.mounted
    THEN [modal EXCEPT !.setup = "resolved", !.tracks = "live", !.stream = 1]
    ELSE [modal EXCEPT !.setup = "resolved", !.tracks = "live"]

\* CameraModal.jsx:80: disabled={!!error}
Disabled(modal) == modal.error # Null

Modals == 1..Len(modals)

\* CameraModal.jsx:12: the await of getUserMedia resolves
GetUserMediaResolves(m) ==
    /\ modals[m].setup = "pending"
    /\ modals' = [modals EXCEPT ![m] = SetupResolved(modals[m])]
    /\ UNCHANGED <<panelVars, requests>>

\* CameraModal.jsx:12, 20: the await of getUserMedia rejects
GetUserMediaRejects(m) ==
    /\ modals[m].setup = "pending"
    /\ modals' = [modals EXCEPT ![m] = SetupRejected(modals[m])]
    /\ UNCHANGED <<panelVars, requests>>

\* CameraModal.jsx:72-77: a click on Cancel
Cancel(m) ==
    /\ modals[m].mounted
    /\ CloseCamera
    /\ RenderModal
    /\ UNCHANGED requests

\* CameraModal.jsx:36-51, 78-84: a click on Take Photo
takePhoto(m) ==
    /\ modals[m].mounted
    /\ ~Disabled(modals[m])
    /\ modals[m].video
    /\ handlePhotoTaken
    /\ RenderModal
    /\ UNCHANGED requests

-----------------------------------------------------------------------------
(* The server's POST /analyze-image (src/server.js:110-147)                   *)

\* request.body as the handler finds it: undefined (no payload), an object
\* without imageData, one whose imageData is the empty string, one with an
\* image data URL
Bodies == {"none", "empty", "blank", "image"}

\* src/server.js:114
RequiredError == "Image data is required"
\* src/server.js:143
AnalysisFailed == "Vision analysis failed"

\* src/server.js:111-119: the handler up to its reply or to the await of the
\* upstream call; destructuring an undefined body throws inside the try
Handle(body) ==
    IF body = "none"
    THEN [body |-> body, pc |-> "replied", status |-> 500, error |-> AnalysisFailed,
          upstream |-> "not called"]
    ELSE IF body \in {"empty", "blank"}
    THEN [body |-> body, pc |-> "replied", status |-> 400, error |-> RequiredError,
          upstream |-> "not called"]
    ELSE [body |-> body, pc |-> "upstream", status |-> 0, error |-> Null,
          upstream |-> "pending"]

Requests == 1..Len(requests)

\* src/server.js:110-119: a request arrives
AnalyzeImage(body) ==
    /\ requests' = Append(requests, Handle(body))
    /\ UNCHANGED <<panelVars, modals>>

\* src/server.js:119-139: the upstream call resolves; its first choice is sent
UpstreamResolves(r) ==
    /\ requests[r].pc = "upstream"
    /\ requests' = [requests EXCEPT ![r] =
                       [@ EXCEPT !.pc = "replied", !.status = 200,
                                 !.upstream = "resolved"]]
    /\ UNCHANGED <<panelVars, modals>>

\* src/server.js:119, 140-146: the upstream call fails
UpstreamRejects(r) ==
    /\ requests[r].pc = "upstream"
    /\ requests' = [requests EXCEPT ![r] =
                       [@ EXCEPT !.pc = "replied", !.status = 500,
                                 !.error = AnalysisFailed, !.upstream = "rejected"]]
    /\ UNCHANGED <<panelVars, modals>>

-----------------------------------------------------------------------------
(* Specifications *)

\* the component as first rendered by the parent: no session, no events
Init ==
    /\ isSessionActive = FALSE
    /\ dataChannel = 0
    /\ events = <<>>
    /\ showCamera = FALSE
    /\ currentImageFilename = Null
    /\ isAnalyzing = FALSE
    /\ currentImage = 0
    /\ analysisError = Null
    /\ crashed = FALSE
    /\ calls = <<>>
    /\ sent = <<>>
    /\ cleanupRequests = <<>>
    /\ modals = <<>>
    /\ requests = <<>>

\* the controller alone: the modal is taken as the showCamera flag and the
\* server as the responses it can give
Next ==
    \/ /\ Len(events) < MaxEvents /\ \E e \in SessionEvents : EventArrives(e)
       /\ UNCHANGED <<modals, requests>>
    \/ EventsCleared /\ UNCHANGED <<modals, requests>>
    \/ SessionStarts /\ UNCHANGED <<modals, requests>>
    \/ SessionEnds /\ UNCHANGED <<modals, requests>>
    \/ ChannelCreated /\ UNCHANGED <<modals, requests>>
    \/ ChannelRemoved /\ UNCHANGED <<modals, requests>>
    \/ CloseCamera /\ UNCHANGED <<modals, requests>>
    \/ /\ Len(calls) < MaxCaptures /\ handlePhotoTaken
       /\ UNCHANGED <<modals, requests>>
    \/ /\ \E c \in Calls : FetchResolves(c)
       /\ UNCHANGED <<modals, requests>>
    \/ /\ \E c \in Calls : FetchRejects(c)
       /\ UNCHANGED <<modals, requests>>
    \/ /\ \E c \in Calls, rs \in ReadyStates, ok \in BOOLEAN : TimerFires(c, rs, ok)
       /\ UNCHANGED <<modals, requests>>
    \/ /\ \E c \in Calls, r \in Responses, rs \in ReadyStates, ok \in BOOLEAN :
              JsonSettles(c, r, rs, ok)
       /\ UNCHANGED <<modals, requests>>
    \/ /\ \E c \in Calls, rs \in ReadyStates, ok \in BOOLEAN : BackoffElapses(c, rs, ok)
       /\ UNCHANGED <<modals, requests>>
    \/ /\ \E c \in Calls, ok \in BOOLEAN : SendReturns(c, ok)
       /\ UNCHANGED <<modals, requests>>

Spec == Init /\ [][Next]_vars

\* the classifier alone: the camera shown or not and an error shown or not, as
\* the controller leaves them, and a first event of every shape
InitClassifier ==
    /\ isSessionActive \in BOOLEAN
    /\ dataChannel = 0
    /\ events = <<>>
    /\ showCamera \in BOOLEAN
    /\ currentImageFilename = Null
    /\ isAnalyzing = FALSE
    /\ currentImage = 0
    /\ analysisError \in {Null, errorText, FetchFailed}
    /\ crashed = FALSE
    /\ calls = <<>>
    /\ sent = <<>>
    /\ cleanupRequests = <<>>
    /\ modals = <<>>
    /\ requests = <<>>

NextClassifier ==
    \/ /\ events = <<>> /\ \E e \in AllEvents : EventArrives(e)
       /\ UNCHANGED <<modals, requests>>
    \/ CloseCamera /\ UNCHANGED <<modals, requests>>

ClassifierSpec == InitClassifier /\ [][NextClassifier]_vars

\* the panel with its modal: what mounts and unmounts CameraModal, and the
\* modal's own steps
NextCamera ==
    \/ /\ Len(modals) < MaxModals
       /\ \E e \in SessionEvents : EventsChange(<<e>>)
       /\ RenderModal
       /\ UNCHANGED requests
    \/ SessionStarts /\ RenderModal /\ UNCHANGED requests
    \/ SessionEnds /\ RenderModal /\ UNCHANGED requests
    \/ \E m \in Modals : GetUserMediaResolves(m)
    \/ \E m \in Modals : GetUserMediaRejects(m)
    \/ \E m \in Modals : Cancel(m)
    \/ \E m \in Modals : takePhoto(m)

CameraSpec == Init /\ [][NextCamera]_vars

\* the server alone, answering requests of every kind of body
NextServer ==
    \/ Len(requests) < MaxRequests /\ \E body \in Bodies : AnalyzeImage(body)
    \/ \E r \in Requests : UpstreamResolves(r)
    \/ \E r \in Requests : UpstreamRejects(r)

ServerSpec == Init /\ [][NextServer]_vars

\* the capture flow of the component test (part_000:64-105): the session is
\* active from the first render and fetch resolves with a body that has
\* message.content
InitFlow ==
    /\ isSessionActive = TRUE
    /\ dataChannel = 0
    /\ events = <<>>
    /\ showCamera = FALSE
    /\ currentImageFilename = Null
    /\ isAnalyzing = FALSE
    /\ currentImage = 0
    /\ analysisError = Null
    /\ crashed = FALSE
    /\ calls = <<>>
    /\ sent = <<>>
    /\ cleanupRequests = <<>>
    /\ modals = <<>>
    /\ requests = <<>>

\* the responses whose body carries an analysis text
ContentResponses == {r \in Responses : r.text \in AnalysisTexts}

\* a pending continuation of handlePhotoTaken runs: the event loop runs every
\* settled promise and every elapsed timer; sendClientEvent is the mock of
\* part_000:16, which returns
Continuation ==
    /\ \/ \E c \in Calls : FetchResolves(c)
       \/ \E c \in Calls, r \in ContentResponses, rs \in ReadyStates :
              JsonSettles(c, r, rs, TRUE)
       \/ \E c \in Calls, rs \in ReadyStates : BackoffElapses(c, rs, TRUE)
       \/ \E c \in Calls : SendReturns(c, TRUE)
    /\ UNCHANGED <<modals, requests>>

NextFlow ==
    \/ /\ Len(events) < MaxEvents /\ \E e \in SessionEvents : EventArrives(e)
       /\ UNCHANGED <<modals, requests>>
    \/ EventsCleared /\ UNCHANGED <<modals, requests>>
    \/ ChannelCreated /\ UNCHANGED <<modals, requests>>
    \/ ChannelRemoved /\ UNCHANGED <<modals, requests>>
    \/ CloseCamera /\ UNCHANGED <<modals, requests>>
    \/ /\ Len(calls) < MaxCaptures /\ handlePhotoTaken
       /\ UNCHANGED <<modals, requests>>
    \/ Continuation

FlowSpec == InitFlow /\ [][NextFlow]_vars /\ WF_vars(Continuation)

\* the events list as it grows, new events at its head, with what closes the
\* camera in between
NextList ==
    \/ /\ Len(events) < MaxEvents + 2 /\ \E e \in ListEvents : EventArrives(e)
       /\ UNCHANGED <<modals, requests>>
    \/ EventsCleared /\ UNCHANGED <<modals, requests>>
    \/ CloseCamera /\ UNCHANGED <<modals, requests>>
    \/ SessionStarts /\ UNCHANGED <<modals, requests>>
    \/ SessionEnds /\ UNCHANGED <<modals, requests>>

ListSpec == Init /\ [][NextList]_vars

\* a timer that has elapsed fires, a rejection is delivered and an awaited send
\* returns; nothing makes a fetch settle or the reading of a body complete
TimersAndCallbacks ==
    /\ \/ \E c \in Calls, rs \in ReadyStates, ok \in BOOLEAN : TimerFires(c, rs, ok)
       \/ \E c \in Calls, rs \in ReadyStates, ok \in BOOLEAN : BackoffElapses(c, rs, ok)
       \/ \E c \in Calls, ok \in BOOLEAN : SendReturns(c, ok)
    /\ UNCHANGED <<modals, requests>>

\* the controller with its timers and callbacks run fairly
TimedSpec == Init /\ [][Next]_vars /\ WF_vars(TimersAndCallbacks)

\* an established session in which the model asks for a photo again while the
\* handlePhotoTaken of an earlier photo is still running
InitOverlap ==
    /\ isSessionActive = TRUE
    /\ dataChannel = 1
    /\ events = <<>>
    /\ showCamera = FALSE
    /\ currentImageFilename = Null
    /\ isAnalyzing = FALSE
    /\ currentImage = 0
    /\ analysisError = Null
    /\ crashed = FALSE
    /\ calls = <<>>
    /\ sent = <<>>
    /\ cleanupRequests = <<>>
    /\ modals = <<>>
    /\ requests = <<>>

NextOverlap ==
    \/ /\ Len(events) < MaxEvents /\ \E e \in SessionEvents : EventArrives(e)
       /\ UNCHANGED <<modals, requests>>
    \/ EventsCleared /\ UNCHANGED <<modals, requests>>
    \/ /\ Len(calls) < MaxCaptures + 1 /\ handlePhotoTaken
       /\ UNCHANGED <<modals, requests>>
    \/ /\ \E c \in Calls : FetchResolves(c)
       /\ UNCHANGED <<modals, requests>>
    \/ /\ \E c \in Calls, r \in Responses, rs \in ReadyStates, ok \in BOOLEAN :
              JsonSettles(c, r, rs, ok)
       /\ UNCHANGED <<modals, requests>>
    \/ /\ \E c \in Calls, rs \in ReadyStates, ok \in BOOLEAN : BackoffElapses(c, rs, ok)
       /\ UNCHANGED <<modals, requests>>
    \/ /\ \E c \in Calls, ok \in BOOLEAN : SendReturns(c, ok)
       /\ UNCHANGED <<modals, requests>>

OverlapSpec == InitOverlap /\ [][NextOverlap]_vars

-----------------------------------------------------------------------------
(* The classifier (ToolPanel.jsx:41-72), checked under ClassifierSpec *)

\* the parent has passed a new events list whose newest event is there
Processed == events' # events /\ Len(events') > 0

\* the three encodings of a take_photo call as the contract words them
EncodesTakePhoto(e) ==
    \/ e.type = "function_call" /\ e.function = "take_photo"
    \/ /\ e.type = "response.output_item.added"
       /\ e.output.kind = "single"
       /\ e.output.items[1] = [type |-> "function_call", name |-> "take_photo"]
    \/ /\ e.type = "response.done"
       /\ e.output.kind = "collection"
       /\ \E i \in 1..Len(e.output.items) :
             e.output.items[i] = [type |-> "function_call", name |-> "take_photo"]

\* the three encodings, with the name that is read first being take_photo: no
\* other name in the function field, and in a collection the first
\* function_call element is the take_photo one
EncodesTakePhotoFirst(e) ==
    \/ e.type = "function_call" /\ e.function = "take_photo"
    \/ /\ e.type = "response.output_item.added"
       /\ e.function \in {Absent, Undefined, "", "take_photo"}
       /\ e.output.kind = "single"
       /\ e.output.items[1] = [type |-> "function_call", name |-> "take_photo"]
    \/ /\ e.type = "response.done"
       /\ e.function \in {Absent, Undefined, "", "take_photo"}
       /\ e.output.kind = "collection"
       /\ \E i \in 1..Len(e.output.items) :
             /\ e.output.items[i] = [type |-> "function_call", name |-> "take_photo"]
             /\ \A j \in 1..(i - 1) : e.output.items[j].type # "function_call"

\* C1 as stated: whenever the newest event encodes a take_photo call in one of
\* the three shapes, processing it shows the camera and clears the error.
C1_AnyEncodingOpensCamera ==
    [][(Processed /\ EncodesTakePhoto(events'[1]))
          => (showCamera' = TRUE /\ analysisError' = Null)]_vars

\* C1 amended: whenever the newest event encodes a take_photo call in one of
\* the three shapes and take_photo is the name read first (the function field
\* names no other function, and in a collection the first function_call
\* element is the take_photo one), processing it shows the camera and clears
\* the error, the same for all three shapes.
C1_FirstNameOpensCamera ==
    [][(Processed /\ EncodesTakePhotoFirst(events'[1]))
          => (showCamera' = TRUE /\ analysisError' = Null /\ crashed' = FALSE)]_vars

\* C1 witness: a response.done event whose collection holds a message and then
\* the take_photo call has opened the camera
C1_Witness ==
    /\ Len(events) = 1
    /\ events[1].type = "response.done"
    /\ events[1].function = Absent
    /\ events[1].output.kind = "collection"
    /\ Len(events[1].output.items) = 2
    /\ events[1].output.items[1].type = "message"
    /\ events[1].output.items[2] = [type |-> "function_call", name |-> "take_photo"]
    /\ showCamera
    /\ analysisError = Null

\* the shape of an event is one of the three recognised ones
RecognisedShape(e) ==
    \/ e.type = "function_call"
    \/ /\ e.type = "response.output_item.added"
       /\ e.output.kind = "single"
       /\ e.output.items[1].type = "function_call"
    \/ /\ e.type = "response.done"
       /\ e.output.kind = "collection"
       /\ \E i \in 1..Len(e.output.items) : e.output.items[i].type = "function_call"

\* the names an event carries where the resolution looks, in its order; a
\* name that is missing or empty is passed over
CarriedNames(e) ==
    (IF Truthy(e.function) THEN <<e.function>> ELSE <<>>)
      \o (IF e.output.kind = "single" /\ Truthy(e.output.items[1].name)
          THEN <<e.output.items[1].name>> ELSE <<>>)
      \o (IF e.output.kind = "collection"
          THEN LET calls_ == SelectSeq(e.output.items,
                                       LAMBDA o : o.type = "function_call")
               IN  IF Len(calls_) > 0 THEN <<calls_[1].name>> ELSE <<>>
          ELSE <<>>)

ResolvesToTakePhoto(e) ==
    Len(CarriedNames(e)) > 0 /\ CarriedNames(e)[1] = "take_photo"

\* C2: whenever the newest event matches none of the three shapes, or the
\* function name it resolves to is not take_photo, processing it leaves
\* showCamera and analysisError as they were.
C2_OtherEventsChangeNothing ==
    [][(Processed /\ (~RecognisedShape(events'[1]) \/ ~ResolvesToTakePhoto(events'[1])))
          => (showCamera' = showCamera /\ analysisError' = analysisError)]_vars

\* C2 witness: an event of an unrecognised type that carries function.name
\* take_photo was processed, the camera is closed and the error still shown
C2_Witness ==
    /\ Len(events) = 1
    /\ events[1].type = "session.update"
    /\ events[1].function = "take_photo"
    /\ ~showCamera
    /\ analysisError = errorText

\* the name at the first of the three locations that holds one, where a
\* location holds a name if `holds` says so
FirstName(e, holds(_)) ==
    IF holds(e.function) THEN e.function
    ELSE IF e.output.kind = "single" /\ holds(e.output.items[1].name)
         THEN e.output.items[1].name
    ELSE IF e.output.kind = "collection" /\ CallIndices(e.output.items) # {}
         THEN e.output.items[Min(CallIndices(e.output.items))].name
    ELSE Absent

\* a name property that is there, whatever its value
Present(n) == n \notin {Absent, Undefined}

\* C19 as stated: for an event that passes the shape test, the name compared
\* with "take_photo" is the first present of function.name, the single
\* output's name and the name of the first function_call element of the
\* collection: the camera opens exactly if that name is "take_photo".
C19_FirstPresentName ==
    [][(Processed /\ ShapeTest(events'[1]) = "true" /\ ~showCamera)
          => (showCamera' = (FirstName(events'[1], Present) = "take_photo"))]_vars

\* C19 amended: the name compared is the first non-empty one of the three
\* locations, a collection giving the name of its first function_call element
\* only: the camera opens exactly if that name is "take_photo".
C19_FirstNonEmptyName ==
    [][(Processed /\ ShapeTest(events'[1]) = "true" /\ ~showCamera)
          => (showCamera' = (FirstName(events'[1], Truthy) = "take_photo"))]_vars

\* C19 witness: a response.done event whose collection has take_photo after
\* another function call was processed and the camera stayed closed
C19_Witness ==
    /\ Len(events) = 1
    /\ events[1].type = "response.done"
    /\ events[1].function = Absent
    /\ events[1].output.kind = "collection"
    /\ Len(events[1].output.items) = 2
    /\ events[1].output.items[1] = [type |-> "function_call", name |-> "other"]
    /\ events[1].output.items[2] = [type |-> "function_call", name |-> "take_photo"]
    /\ ~showCamera
    /\ ~crashed

\* C21 as stated: processing an event of any shape completes without an
\* exception, and either opens the camera or leaves the state as it was.
C21_ClassifierTotal ==
    [][Processed
          => (/\ crashed' = FALSE
              /\ \/ showCamera' = TRUE /\ analysisError' = Null
                 \/ showCamera' = showCamera /\ analysisError' = analysisError)]_vars

-----------------------------------------------------------------------------
(* The controller (ToolPanel.jsx:74-212), checked under Spec *)

\* the events one call of handlePhotoTaken has passed to sendClientEvent
MessagesOf(log, c) == SelectSeq(log, LAMBDA m : m.call = c)

\* the triple of a delivery with analysis text t
Triple(c, t) == <<FunctionResult(c), AssistantMessage(c, t), SpeechStart(c, t)>>

\* the sum of 1000 * 2^i for i in 0..n-2
RECURSIVE BackoffSum(_)
BackoffSum(n) == IF n <= 1 THEN 0 ELSE BackoffSum(n - 1) + 1000 * 2^(n - 2)

\* C3: when the timer fires with the request unresolved the capture ends in
\* the Timeout failure (isAnalyzing false, analysisError the timed-out text);
\* from then on it stays a timeout, it never sends a function result or an
\* analysis text, and the late response changes neither the error text nor
\* what was sent.
C3_TimeoutIsFinal ==
    [][\A c \in Calls :
          /\ (calls[c].pc = "fetching" /\ calls'[c].pc # "fetching"
                /\ calls'[c].fetch = "pending")
                => (/\ calls'[c].result = "timeout"
                    /\ isAnalyzing' = FALSE
                    /\ analysisError' = errorText)
          /\ calls[c].result = "timeout"
                => (/\ calls'[c].result = "timeout"
                    /\ calls'[c].pc \in {"apology1", "apology2", "done"}
                    /\ \A i \in 1..Len(sent') :
                          sent'[i].call = c
                            => (/\ sent'[i].type # "function_result"
                                /\ sent'[i].text \in {errorText, ApologySpeech}))
          /\ (calls[c].result = "timeout" /\ calls'[c].fetch # calls[c].fetch)
                => (/\ sent' = sent
                    /\ uiVars' = uiVars
                    /\ calls'[c] = [calls[c] EXCEPT !.fetch = "settled"])]_vars

\* C3 witness: a capture has timed out, its response has arrived afterwards,
\* and the timed-out text is still shown
C3_Witness ==
    \E c \in Calls :
        /\ calls[c].result = "timeout"
        /\ calls[c].fetch = "settled"
        /\ ~isAnalyzing
        /\ analysisError = errorText
        /\ MessagesOf(sent, c) = <<>>

\* C4: a check of sendToModel that reads 'open' passes the function result to
\* sendClientEvent and ends the checking; the messages of the delivery are, in
\* order, function_result, the assistant message and speech.output.start with
\* the analysis text; a delivery that has sent all three after N checks has
\* waited the sum of 1000 * 2^i for i in 0..N-2, with 1 <= N <= 5; and once it
\* has returned it neither checks nor sends again.
C4_OneOrderedTriple ==
    [][\A c \in Calls :
          /\ (calls'[c].checks = calls[c].checks + 1 /\ calls'[c].readyState = "open")
                => (/\ calls'[c].pc = "await1"
                    /\ sent' = Append(sent, FunctionResult(c)))
          /\ calls'[c].pc = "await1"
                => MessagesOf(sent', c) = SubSeq(Triple(c, calls'[c].text), 1, 1)
          /\ calls'[c].pc = "await2"
                => MessagesOf(sent', c) = SubSeq(Triple(c, calls'[c].text), 1, 2)
          /\ calls'[c].pc = "await3"
                => (/\ MessagesOf(sent', c) = Triple(c, calls'[c].text)
                    /\ calls'[c].checks \in 1..5
                    /\ calls'[c].waited = BackoffSum(calls'[c].checks))
          /\ calls[c].pc = "await3"
                => (/\ calls'[c].pc \in {"await3", "done"}
                    /\ MessagesOf(sent', c) = MessagesOf(sent, c)
                    /\ calls'[c].pc = "done" => calls'[c].result = "success")
          /\ calls[c].result = "success"
                => (/\ calls'[c] = calls[c]
                    /\ MessagesOf(sent', c) = MessagesOf(sent, c))]_vars

\* C4 witness: a delivery whose channel was open at the fourth check has sent
\* its three messages
C4_Witness ==
    \E c \in Calls :
        /\ calls[c].pc = "await3"
        /\ calls[c].checks = 4
        /\ calls[c].waited = 7000
        /\ Len(MessagesOf(sent, c)) = 3

\* C5: a delivery with a channel handle and an active session that has not
\* read 'open' at any check waits after each of its first 5 checks, sends
\* nothing, and after the fifth wait fails with the ChannelUnavailable error;
\* it fails so only after exactly 5 checks.
C5_FiveChecksThenUnavailable ==
    [][\A c \in Calls :
          /\ calls'[c].pc = "backoff"
                => (/\ calls'[c].checks \in 1..5
                    /\ calls'[c].checks = calls'[c].attempt + 1
                    /\ MessagesOf(sent', c) = <<>>)
          /\ (calls[c].pc = "backoff" /\ calls[c].checks = 5 /\ calls'[c] # calls[c])
                => (/\ calls'[c].result = "unavailable"
                    /\ sent' = sent)
          /\ (calls'[c].result = "unavailable" /\ calls[c].result # "unavailable")
                => (/\ calls[c].pc = "backoff"
                    /\ calls[c].checks = 5
                    /\ MessagesOf(sent', c) = <<>>)]_vars

\* C5 witness: a delivery has failed with ChannelUnavailable and sent nothing
C5_Witness ==
    \E c \in Calls :
        /\ calls[c].result = "unavailable"
        /\ MessagesOf(sent, c) = <<>>

\* C6 as stated: when the session ends while a captured image is set, one
\* cleanup request is issued.
C6_CleanupOnSessionEnd ==
    [][(isSessionActive /\ ~isSessionActive' /\ currentImage # 0)
          => Len(cleanupRequests') = Len(cleanupRequests) + 1]_vars

\* C7: when isSessionActive becomes false, the effect leaves showCamera false,
\* isAnalyzing false, currentImage null and analysisError null.
C7_SessionEndResets ==
    [][(isSessionActive /\ ~isSessionActive')
          => (/\ showCamera' = FALSE
              /\ isAnalyzing' = FALSE
              /\ currentImage' = 0
              /\ analysisError' = Null)]_vars

\* C7 witness: the session has ended while an analysis was running, and the
\* panel is reset
C7_Witness ==
    /\ ~isSessionActive
    /\ \E c \in Calls : calls[c].pc = "fetching" /\ calls[c].active
    /\ ~showCamera
    /\ ~isAnalyzing
    /\ currentImage = 0
    /\ analysisError = Null

\* C8 as stated: a take_photo event that arrives while the session is not
\* active does not set showCamera to true.
C8_NoCameraWhileInactive ==
    [][(~isSessionActive /\ ~showCamera /\ events' # events) => ~showCamera']_vars

\* C9 as stated: a take_photo event that arrives while an analysis is in
\* progress is ignored, showCamera stays false.
C9_NoCameraWhileAnalyzing ==
    [][(isAnalyzing /\ ~showCamera /\ events' # events) => ~showCamera']_vars

\* C10 as stated: an iteration of the delivery loop that runs after a backoff
\* while the session is no longer active, or the channel handle is gone,
\* ends the delivery silently: nothing is sent and no error is raised.
C10_LoopPollsSession ==
    [][\A c \in Calls :
          (/\ calls[c].pc = "backoff"
           /\ calls'[c] # calls[c]
           /\ (~isSessionActive \/ dataChannel = 0))
             => (calls'[c].result = "aborted" /\ sent' = sent)]_vars

\* how a delivery ends other than by sending its three messages
DeliveryFailures == {"unavailable", "send_failed", "aborted"}

\* C12: the step in which sendToModel fails (ChannelUnavailable after 5 checks,
\* or a sendClientEvent that throws) or aborts leaves showCamera, currentImage
\* and analysisError as they were, does not reach the catch block and breaks
\* nothing; isAnalyzing is left as it was too, having been set to false when
\* the analysis returned, before the delivery started.
C12_DeliveryOutcomeLeavesUI ==
    [][\A c \in Calls :
          (calls[c].result = "none" /\ calls'[c].result \in DeliveryFailures)
            => (/\ showCamera' = showCamera
                /\ currentImage' = currentImage
                /\ currentImageFilename' = currentImageFilename
                /\ analysisError' = analysisError
                /\ crashed' = crashed
                /\ isAnalyzing' = (IF calls[c].pc = "reading" THEN FALSE ELSE isAnalyzing))]_vars

\* C12 witness: a delivery has failed after its 5 checks while the panel shows
\* the photo it was for, with no error
C12_Witness ==
    \E c \in Calls :
        /\ calls[c].result = "unavailable"
        /\ currentImage = c
        /\ analysisError = Null
        /\ ~isAnalyzing
        /\ ~crashed

\* the two messages of the apology of a timed-out capture
Apology(c) == <<AssistantMessage(c, errorText), SpeechStart(c, ApologySpeech)>>

\* C15: the step in which a capture times out sets analysisError to the
\* timed-out text ("Vision analysis timed out. Please try again."); what a
\* timed-out capture has passed to sendClientEvent is the assistant message
\* with that text, then the speech trigger, or the beginning of these two, and
\* never a function_result; a capture that failed otherwise has sent nothing.
C15_TimeoutApology ==
    /\ [](\A c \in Calls :
            /\ calls[c].result = "timeout"
                  => (/\ \E n \in 0..2 : MessagesOf(sent, c) = SubSeq(Apology(c), 1, n)
                      /\ calls[c].pc = "apology1" => Len(MessagesOf(sent, c)) = 1
                      /\ calls[c].pc = "apology2" => Len(MessagesOf(sent, c)) = 2)
            /\ calls[c].result = "failed" => MessagesOf(sent, c) = <<>>)
    /\ [][\A c \in Calls :
             (calls[c].result = "none" /\ calls'[c].result = "timeout")
               => (/\ analysisError' = errorText
                   /\ isAnalyzing' = FALSE)]_vars

\* C15 witness: a timed-out capture has sent its two apology messages and
\* returned
C15_Witness ==
    \E c \in Calls :
        /\ calls[c].result = "timeout"
        /\ calls[c].pc = "done"
        /\ MessagesOf(sent, c) = Apology(c)
        /\ analysisError = errorText

\* C18 as stated: a request that settles before the timer with a rejection, a
\* non-success status or a body lacking message.content ends the capture in
\* RequestFailed (isAnalyzing false, analysisError a diagnostic text that is
\* not the timeout one) and starts no delivery: no delivery runs without an
\* analysis text.
C18_RequestFailed ==
    /\ [](\A c \in Calls :
            calls[c].pc \in {"backoff", "await1", "await2", "await3"}
              => calls[c].text \in AnalysisTexts)
    /\ [][\A c \in Calls :
             (calls[c].pc = "fetching" /\ calls'[c].pc = "done"
                /\ calls'[c].fetch = "settled")
               => (/\ calls'[c].result = "failed"
                   /\ isAnalyzing' = FALSE
                   /\ analysisError' \notin {Null, "", errorText, TimeoutMessage}
                   /\ sent' = sent)]_vars

\* the state the session-end effect leaves
ResetState == ~isAnalyzing /\ currentImage = 0 /\ analysisError = Null

\* C22 as stated: while the session is inactive and the reset has run,
\* isAnalyzing is false, currentImage null and analysisError null, also when an
\* analysis started before the session ended succeeds, fails or times out
\* afterwards: a step of a capture taken in an active session keeps the reset
\* state of an inactive session.
C22_ResetStateKept ==
    [][\A c \in Calls :
          (/\ calls[c].active
           /\ calls'[c] # calls[c]
           /\ ~isSessionActive /\ ~isSessionActive'
           /\ ResetState)
            => ResetState']_vars

\* C23 as stated: with timers and promise callbacks run fairly, isAnalyzing
\* eventually becomes false after handlePhotoTaken has set it, whether the
\* request resolves, rejects, never resolves, or resolves with a body whose
\* reading never completes.
C23_AnalyzingEnds == isAnalyzing ~> ~isAnalyzing

-----------------------------------------------------------------------------
(* Overlapping captures, checked under OverlapSpec *)

\* C11 as stated: the messages passed to sendClientEvent never interleave the
\* messages of one capture with those of another: no message of a capture
\* lies between two messages of another capture.
C11_NoInterleaving ==
    \A i, j, k \in 1..Len(sent) :
        (i < j /\ j < k /\ sent[i].call = sent[k].call) => sent[j].call = sent[i].call

-----------------------------------------------------------------------------
(* The camera modal (CameraModal.jsx), checked under CameraSpec *)

\* C13 as stated: in no reachable state is a stream still live after the modal
\* that acquired it has been unmounted.
C13_StreamReleased ==
    \A m \in Modals : ~modals[m].mounted => modals[m].tracks # "live"

\* C14: a mounted modal whose getUserMedia was rejected shows the error in
\* place of the feed with the capture button disabled, and its Cancel button
\* works; the rejection breaks nothing and leaves the panel as it was;
\* onPhotoTaken is invoked only from a modal without error; and a click on
\* Cancel closes the camera.
C14_DeniedCameraIsNonFatal ==
    /\ [](\A m \in Modals :
            (modals[m].mounted /\ modals[m].setup = "rejected")
              => (/\ modals[m].error = CameraError
                  /\ ~modals[m].video
                  /\ Disabled(modals[m])
                  /\ ~ENABLED takePhoto(m)
                  /\ ENABLED Cancel(m)))
    /\ [][/\ (\A m \in Modals :
                 (modals[m].setup = "pending" /\ modals'[m].setup = "rejected")
                   => (crashed' = FALSE /\ panelVars' = panelVars))
           /\ ((Len(calls') > Len(calls))
                  => (/\ modals[Len(modals)].mounted
                      /\ modals[Len(modals)].error = Null
                      /\ modals[Len(modals)].setup # "rejected"))
           /\ (\A n \in Modals :
                 (modals[n].mounted /\ modals[n].error # Null /\ ~modals'[n].mounted)
                   => (~showCamera' /\ calls' = calls))]_vars

\* C14 witness: a modal whose camera access was denied has been dismissed, and
\* no photo was handed over
C14_Witness ==
    \E m \in Modals :
        /\ modals[m].setup = "rejected"
        /\ modals[m].error = CameraError
        /\ ~modals[m].mounted
        /\ ~showCamera
        /\ calls = <<>>

-----------------------------------------------------------------------------
(* POST /analyze-image (src/server.js:110-147), checked under ServerSpec *)

\* C16 as stated: a request is answered 400 "Image data is required", with the
\* upstream not called, whenever it carries no imageData, a request with no
\* body included; 500 "Vision analysis failed" whenever the upstream call
\* fails; and otherwise 200 with the upstream's first choice.
C16_ThreeResponses ==
    \A r \in Requests :
        requests[r].pc = "replied"
          => IF requests[r].body \in {"none", "empty", "blank"}
             THEN /\ requests[r].status = 400
                  /\ requests[r].error = RequiredError
                  /\ requests[r].upstream = "not called"
             ELSE \/ /\ requests[r].upstream = "rejected"
                     /\ requests[r].status = 500
                     /\ requests[r].error = AnalysisFailed
                  \/ /\ requests[r].upstream = "resolved"
                     /\ requests[r].status = 200
                     /\ requests[r].error = Null

-----------------------------------------------------------------------------
(* The capture flow of the component test, checked under FlowSpec *)

\* C17 as stated: after a photo is taken in an active session and
\* /analyze-image resolves with message content, sendClientEvent is eventually
\* called with an event of type "response.create" for that photo.
C17_ResponseCreateSent ==
    \A c \in 1..MaxCaptures :
        (Len(calls) >= c)
          ~> (\E i \in 1..Len(sent) :
                 sent[i].call = c /\ sent[i].type = "response.create")

-----------------------------------------------------------------------------
(* The events list over time, checked under ListSpec *)

\* C20: whenever the list changes, its head alone decides: a take_photo event
\* at the head opens the camera, each time one arrives; an event at the head
\* that is no take_photo call leaves showCamera and analysisError as they
\* were, whatever is behind it in the list; and nothing but a change of the
\* list opens the camera.
C20_NewestEventOnly ==
    [][/\ (events' # events /\ Len(events') > 0 /\ events'[1] = TakePhotoCall)
            => (showCamera' = TRUE /\ analysisError' = Null)
       /\ (events' # events /\ Len(events') > 0 /\ events'[1] # TakePhotoCall)
            => (showCamera' = showCamera /\ analysisError' = analysisError)
       /\ (events' = events) => (showCamera' => showCamera)]_vars

\* C20 witness: the camera was dismissed and a later event that is no
\* take_photo call has arrived; the camera is closed although the older
\* take_photo event is still in the list
C20_Witness ==
    /\ Len(events) >= 2
    /\ events[1] = SessionUpdate
    /\ events[2] = TakePhotoCall
    /\ isSessionActive
    /\ ~showCamera

-----------------------------------------------------------------------------
(* Take Photo before the camera is ready, checked under CameraSpec *)

\* C24 as stated: onPhotoTaken is invoked, and an analysis started, only from
\* a modal whose getUserMedia has resolved and whose stream is set.
C24_PhotoOnlyWithStream ==
    [][(Len(calls') > Len(calls))
          => (/\ modals[Len(modals)].setup = "resolved"
              /\ modals[Len(modals)].stream # 0)]_vars

====
